---- MODULE Spec2Model ----
(***************************************************************************)
(* Ant Colony Optimization engine for the open-path TSP                    *)
(* (src/algorithms/aco.py) and the Streamlit driver loop (src/app.py).     *)
(*                                                                         *)
(* Cities are 0 .. num_cities-1 as in the source.  A tour is a sequence,   *)
(* so the source's tour[k] is tour[k+1] here.  Real numbers are exact      *)
(* rationals <<numerator, denominator>> in lowest terms; float('inf') is   *)
(* the value Inf.  Distances between distinct cities are positive, as      *)
(* build_distance_matrix gives them for distinct points.  The random       *)
(* choice of select_next_city is a choice among the cities of positive     *)
(* probability.  Of the widgets of app.py the two selectboxes, the ant     *)
(* slider and the iteration slider change; alpha, beta and the             *)
(* evaporation rate stay at their defaults.                                *)
(***************************************************************************)
EXTENDS Integers, Sequences, FiniteSets, TLC

VARIABLES
    \* AntColonyOptimization attributes (aco.py 37-50)
    distance_matrix, num_cities, num_ants, alpha, beta, evaporation_rate, Q,
    pheromones, best_tour, best_distance, history,
    \* run_iteration frame (aco.py 140-171)
    pc, start_city, end_city, all_tours, outcome, ret,
    \* engine state as it stood when the current/last call was entered
    pre,
    \* st.session_state and widget values (app.py 109-157)
    aco, running, iteration, ss_best_tour, ss_best_distance, ss_avg_distance,
    start_idx, end_idx, ants_slider, max_iterations,
    \* where main() stands: "wait" between script runs, "step" before and
    \* "call" inside its run_iteration call
    script,
    \* the (start, end) arguments of the calls made on the current engine
    calls,
    \* every <<tour, distance>> an ant of the current engine produced, in order
    tours_built

params == <<distance_matrix, num_cities, num_ants, alpha, beta, evaporation_rate, Q>>
engine == <<pheromones, best_tour, best_distance, history>>
frame  == <<pc, start_city, end_city, all_tours, outcome, ret, pre, calls, tours_built>>
session == <<aco, running, iteration, ss_best_tour, ss_best_distance,
             ss_avg_distance, start_idx, end_idx, ants_slider, max_iterations, script>>
vars == <<params, engine, frame, session>>

----------------------------------------------------------------------------
(* Bounds of the model *)

\* run_iteration calls that complete on one engine
MaxGen == 2
\* largest colony size
MaxAnts == 2

\* numbers of cities the engines are built for
Sizes == {3, 4}

----------------------------------------------------------------------------
(* Exact arithmetic on rationals <<n, d>>, d > 0, in lowest terms *)

RECURSIVE GCD(_, _)
GCD(a, b) == IF b = 0 THEN a ELSE GCD(b, a % b)

Abs(x) == IF x < 0 THEN -x ELSE x

Rat(n, d) ==
    LET s == IF d < 0 THEN -1 ELSE 1
        g == GCD(Abs(n), Abs(d))
    IN  <<(s * n) \div g, (s * d) \div g>>

RAdd(x, y) ==
    LET g == GCD(x[2], y[2])
    IN  Rat(x[1] * (y[2] \div g) + y[1] * (x[2] \div g), x[2] * (y[2] \div g))

RMul(x, y) ==
    LET a == Rat(x[1], y[2])
        b == Rat(y[1], x[2])
    IN  <<a[1] * b[1], a[2] * b[2]>>

RLess(x, y) ==
    LET g == GCD(x[2], y[2])
    IN  x[1] * (y[2] \div g) < y[1] * (x[2] \div g)

RECURSIVE RPow(_, _)
RPow(x, k) == IF k = 0 THEN <<1, 1>> ELSE RMul(x, RPow(x, k - 1))

ROne == <<1, 1>>
RZero == <<0, 1>>

----------------------------------------------------------------------------
(* Values *)

\* float('inf'): greater than every tour length
Inf == -1
None == "None"
\* best_tour = None: no tour (a tour is never empty)
NoTour == <<>>

\* <= where the source has <
LessOrEqual(d, b) == b = Inf \/ (d # Inf /\ d <= b)

\* distance < best_distance, for a finite distance
Less(d, b) == b = Inf \/ (d # Inf /\ d < b)
\* a <= b on lengths and float('inf')
Leq(a, b) == b = Inf \/ (a # Inf /\ a <= b)

Cities == 0 .. (num_cities - 1)

\* Distance matrices of n points, as build_distance_matrix lays them out:
\* zero diagonal, symmetric, positive off the diagonal.  "line": n points on
\* a line at unit spacing; "ring": n points on a ring, distance by hops.
DistanceMatrix(kind, rows, cols) ==
    [i \in 0 .. rows - 1 |-> [j \in 0 .. cols - 1 |->
        IF kind = "line" THEN Abs(i - j)
        ELSE IF Abs(i - j) <= rows - Abs(i - j) THEN Abs(i - j)
             ELSE rows - Abs(i - j)]]

Kinds == {"line", "ring"}

----------------------------------------------------------------------------
(* AntColonyOptimization *)

\* np.ones((num_cities, num_cities))
Ones(n) == [i \in 0 .. n - 1 |-> [j \in 0 .. n - 1 |-> ROne]]

\* calculate_distance: the sum over consecutive pairs
RECURSIVE calculate_distance_from(_, _)
calculate_distance_from(tour, i) ==
    IF i >= Len(tour) THEN 0
    ELSE distance_matrix[tour[i]][tour[i + 1]] + calculate_distance_from(tour, i + 1)

calculate_distance(tour) == calculate_distance_from(tour, 1)

\* one entry of `probabilities`: pheromone ** alpha * (1 / distance) ** beta
Weight(current_city, city) ==
    RMul(RPow(pheromones[current_city][city], alpha),
         RPow(Rat(1, distance_matrix[current_city][city]), beta))

\* the filter without `city != end_city`
CandidatesKeepEnd(visited, end) == {city \in Cities : city \notin visited}

\* the cities of `probabilities`, which the loop lists in increasing order
Candidates(visited, end) == {city \in Cities : city \notin visited /\ city # end}

RECURSIVE SumWeights(_, _)
SumWeights(current_city, cands) ==
    IF cands = {} THEN RZero
    ELSE LET c == CHOOSE x \in cands : \A y \in cands : x <= y
         IN  RAdd(Weight(current_city, c), SumWeights(current_city, cands \ {c}))

\* probs = probs / probs.sum(), for one city of `probabilities`
Prob(current_city, cands, city) ==
    LET total == SumWeights(current_city, cands)
    IN  RMul(Weight(current_city, city), <<total[2], total[1]>>)

\* The cities select_next_city can return.  np.random.choice(cities, p=probs)
\* returns any city of positive probability.
select_next_city(current_city, visited, end) ==
    IF Candidates(visited, end) = {} THEN {end}
    ELSE {city \in Candidates(visited, end) :
             RLess(RZero, Prob(current_city, Candidates(visited, end), city))}

\* The tours the while loop of construct_solution can complete `tour` to.
RECURSIVE BuildTour(_, _, _, _)
BuildTour(tour, visited, current_city, end) ==
    IF Len(tour) < num_cities - 1
    THEN UNION {BuildTour(Append(tour, next_city), visited \cup {next_city},
                          next_city, end) :
                   next_city \in select_next_city(current_city, visited, end)}
    ELSE {Append(tour, end)}

\* The tours construct_solution can return.
construct_solution(start, end) == BuildTour(<<start>>, {start}, start, end)

\* the deposit loop without its second line, pheromones[b][a] += deposit
RECURSIVE DepositTourOneWay(_, _, _, _)
DepositTourOneWay(P, tour, i, deposit) ==
    IF i >= Len(tour) THEN P
    ELSE DepositTourOneWay([P EXCEPT ![tour[i]][tour[i + 1]] = RAdd(@, deposit)],
                           tour, i + 1, deposit)

\* update_pheromones: the deposit loop over the edges of one tour
RECURSIVE DepositTour(_, _, _, _)
DepositTour(P, tour, i, deposit) ==
    IF i >= Len(tour) THEN P
    ELSE LET a == tour[i]
             b == tour[i + 1]
             P1 == [P EXCEPT ![a][b] = RAdd(@, deposit)]
             P2 == [P1 EXCEPT ![b][a] = RAdd(@, deposit)]
         IN  DepositTour(P2, tour, i + 1, deposit)

\* update_pheromones: the loop over all_tours, entries <<tour, distance>>
RECURSIVE DepositAll(_, _, _)
DepositAll(P, tours, k) ==
    IF k > Len(tours) THEN P
    ELSE DepositAll(DepositTour(P, tours[k][1], 1, Rat(Q, tours[k][2])),
                    tours, k + 1)

\* self.pheromones *= (1 - self.evaporation_rate)
Evaporate(P) ==
    [i \in DOMAIN P |-> [j \in DOMAIN P[i] |->
        RMul(P[i][j], RAdd(ROne, <<-evaporation_rate[1], evaporation_rate[2]>>))]]

\* the deposit of the last ant only
update_pheromones_last(tours) == DepositAll(Evaporate(pheromones), tours, Len(tours))

update_pheromones(tours) == DepositAll(Evaporate(pheromones), tours, 1)

\* np.mean([d for _, d in all_tours]); nan on an empty list
RECURSIVE SumDistances(_, _)
SumDistances(tours, k) ==
    IF k > Len(tours) THEN 0 ELSE tours[k][2] + SumDistances(tours, k + 1)

Mean(tours) == IF Len(tours) = 0 THEN "nan" ELSE Rat(SumDistances(tours, 1), Len(tours))

\* the attributes a call may change
Snapshot == [pheromones |-> pheromones, best_tour |-> best_tour,
             best_distance |-> best_distance, history |-> history]

\* __init__: the attributes of a new engine
NewEngine(dm, ants, a, b, rho, q) ==
    [distance_matrix |-> dm, num_cities |-> Cardinality(DOMAIN dm), num_ants |-> ants,
     alpha |-> a, beta |-> b, evaporation_rate |-> rho, Q |-> q,
     pheromones |-> Ones(Cardinality(DOMAIN dm)),
     best_tour |-> NoTour, best_distance |-> Inf, history |-> <<>>]

\* the arguments app.py passes besides the matrix and the colony size: the
\* slider defaults alpha 1.0, beta 5.0 and evaporation 0.5, and Q = 100
Alpha == 1
Beta == 5
Evaporation == <<1, 2>>
DepositFactor == 100

IdleFrame ==
    /\ start_city = None /\ end_city = None /\ all_tours = <<>>
    /\ outcome = "none" /\ ret = None /\ pre = None /\ calls = <<>>
    /\ tours_built = <<>>

\* no driver: the engine is used directly
NoSession ==
    /\ aco = None /\ running = FALSE /\ iteration = 0
    /\ ss_best_tour = None /\ ss_best_distance = None /\ ss_avg_distance = None
    /\ start_idx = 0 /\ end_idx = 0 /\ ants_slider = 0 /\ max_iterations = 0
    /\ script = "wait"

\* the state right after AntColonyOptimization(...) returned e
Constructed(e) ==
    /\ distance_matrix = e.distance_matrix /\ num_cities = e.num_cities
    /\ num_ants = e.num_ants /\ alpha = e.alpha /\ beta = e.beta
    /\ evaporation_rate = e.evaporation_rate /\ Q = e.Q
    /\ pheromones = e.pheromones /\ best_tour = e.best_tour
    /\ best_distance = e.best_distance /\ history = e.history

\* st.session_state.aco = None: no engine exists
Absent ==
    [distance_matrix |-> None, num_cities |-> 0, num_ants |-> 0,
     alpha |-> None, beta |-> None, evaporation_rate |-> None, Q |-> None,
     pheromones |-> None, best_tour |-> NoTour, best_distance |-> Inf,
     history |-> <<>>]

NoEngine == Constructed(Absent)

Init ==
    /\ \E n \in Sizes, kind \in Kinds, ants \in 1 .. MaxAnts :
          Constructed(NewEngine(DistanceMatrix(kind, n, n), ants, Alpha, Beta,
                                Evaporation, DepositFactor))
    /\ pc = "idle" /\ IdleFrame /\ NoSession

----------------------------------------------------------------------------
(* run_iteration, one step per pass of its loop *)

\* entry: all_tours = []
CallBody(start, end) ==
    /\ pc = "idle"
    /\ Len(calls) < MaxGen
    /\ pc' = "ants"
    /\ start_city' = start /\ end_city' = end
    /\ all_tours' = <<>>
    /\ outcome' = "running" /\ ret' = None
    /\ pre' = Snapshot
    /\ calls' = Append(calls, <<start, end>>)
    /\ UNCHANGED <<params, engine, tours_built>>

Call(start, end) == CallBody(start, end) /\ UNCHANGED session

\* an index outside the arrays raises IndexError out of run_iteration:
\* the frame is dropped, self is left as it is
Raise(error) ==
    /\ pc' = "idle" /\ outcome' = error /\ all_tours' = <<>>
    /\ UNCHANGED <<start_city, end_city, ret, pre, calls, tours_built, params, engine,
                   session>>

\* best_tour set only the first time
UpdateBestKeepTour(tour, distance) ==
    IF Less(distance, best_distance)
    THEN <<distance, IF best_tour = NoTour THEN tour ELSE best_tour>>
    ELSE <<best_distance, best_tour>>

\* `if distance < self.best_distance`: the new <<best_distance, best_tour>>
UpdateBest(tour, distance) ==
    IF Less(distance, best_distance) THEN <<distance, tour>>
    ELSE <<best_distance, best_tour>>

\* history.insert(0, ...)
PrependHistory(h, d) == <<d>> \o h

\* self.history.append(self.best_distance)
AppendHistory(h, d) == Append(h, d)

\* one pass of `for _ in range(self.num_ants)`
AntStep ==
    /\ pc = "ants"
    /\ Len(all_tours) < num_ants
    /\ IF start_city \notin Cities
       THEN \* self.pheromones[current_city][city] in select_next_city
            Raise("IndexError")
       ELSE \E tour \in construct_solution(start_city, end_city) :
                IF end_city \notin Cities
                THEN \* self.distance_matrix[tour[i]][tour[i + 1]]
                     Raise("IndexError")
                ELSE LET distance == calculate_distance(tour)
                     IN  /\ all_tours' = Append(all_tours, <<tour, distance>>)
                         /\ tours_built' = Append(tours_built, <<tour, distance>>)
                         /\ best_distance' = UpdateBest(tour, distance)[1]
                         /\ best_tour' = UpdateBest(tour, distance)[2]
                         /\ UNCHANGED <<pc, start_city, end_city, outcome, ret, pre,
                                        calls, params, pheromones, history, session>>

\* after the loop: update_pheromones, history.append, return
UpdateAndReturn ==
    /\ pc = "ants"
    /\ Len(all_tours) = num_ants
    /\ pheromones' = update_pheromones(all_tours)
    /\ history' = AppendHistory(history, best_distance)
    /\ ret' = <<best_tour, best_distance, Mean(all_tours)>>
    /\ outcome' = "returned"
    /\ pc' = "idle"
    /\ UNCHANGED <<start_city, end_city, all_tours, pre, calls, tours_built, params,
                   best_tour, best_distance, session>>

\* arguments passed to run_iteration: within its contract
\* (0 <= index < N, start # end), and any, N standing for an index >= N
ValidArgs == {a \in {0, 1} \X {0, num_cities - 1} : a[1] # a[2]}
AnyArgs == {0, 1, num_cities} \X {0, num_cities - 1, num_cities}

CallValid == \E a \in ValidArgs : Call(a[1], a[2])
CallAny == \E a \in AnyArgs : Call(a[1], a[2])

Next == CallValid \/ AntStep \/ UpdateAndReturn

\* the engine called within the contract of run_iteration
Spec == Init /\ [][Next]_vars

NextUnchecked == CallAny \/ AntStep \/ UpdateAndReturn

\* the engine called with any arguments
SpecUnchecked == Init /\ [][NextUnchecked]_vars

----------------------------------------------------------------------------
(* Construction with arbitrary arguments *)

CtorSizes == Sizes \cup {2}
CtorAnts == -1 .. MaxAnts
CtorRates == {<<0, 1>>, <<1, 2>>, <<1, 1>>, <<3, 2>>}

InitCtor == NoEngine /\ pc = "none" /\ IdleFrame /\ NoSession

ConstructedNext(e) ==
    /\ distance_matrix' = e.distance_matrix /\ num_cities' = e.num_cities
    /\ num_ants' = e.num_ants /\ alpha' = e.alpha /\ beta' = e.beta
    /\ evaporation_rate' = e.evaporation_rate /\ Q' = e.Q
    /\ pheromones' = e.pheromones /\ best_tour' = e.best_tour
    /\ best_distance' = e.best_distance /\ history' = e.history

\* AntColonyOptimization(dm, ants, a, b, rho, q)
Construct(dm, ants, a, b, rho, q) ==
    /\ pc = "none"
    /\ ConstructedNext(NewEngine(dm, ants, a, b, rho, q))
    /\ pc' = "idle"
    /\ outcome' = "constructed"
    /\ UNCHANGED <<start_city, end_city, all_tours, ret, pre, calls, tours_built,
                   session>>

ConstructAny ==
    \E rows \in CtorSizes, cols \in CtorSizes, kind \in Kinds,
       ants \in CtorAnts, rho \in CtorRates :
        Construct(DistanceMatrix(kind, rows, cols), ants, Alpha, Beta, rho,
                  DepositFactor)

NextCtor == ConstructAny

SpecCtor == InitCtor /\ [][NextCtor]_vars

----------------------------------------------------------------------------
(* main() of app.py: the script Streamlit runs on every event and rerun *)

Min(a, b) == IF a < b THEN a ELSE b

\* len(WILAYAS), 58 in the application
NumWilayas == 3
\* st.session_state.distance_matrix = build_distance_matrix(WILAYAS)
SessionMatrix == DistanceMatrix("line", NumWilayas, NumWilayas)

\* widget defaults, clipped to the scaled-down ranges
DefaultEnd == 15
DefaultAnts == 30
DefaultMaxIterations == 200

InitDriver ==
    /\ NoEngine /\ pc = "none" /\ IdleFrame
    /\ aco = None /\ iteration = 0 /\ running = FALSE
    /\ ss_best_tour = None /\ ss_best_distance = None /\ ss_avg_distance = None
    /\ start_idx = 0
    /\ end_idx = Min(DefaultEnd, NumWilayas - 1)
    /\ ants_slider = Min(DefaultAnts, MaxAnts)
    /\ max_iterations = Min(DefaultMaxIterations, MaxGen)
    /\ script = "wait"

\* the script reaches `if running and iteration < max_iterations` (line 208)
ReachRunBlock ==
    script' = IF running' /\ iteration' < max_iterations' THEN "step" ELSE "wait"

EngineVars == <<params, engine, pc, start_city, end_city, all_tours, outcome, ret,
                pre, calls, tours_built>>

\* a selectbox or slider changes; the script runs with the new value
SelectStart(v) ==
    /\ script = "wait" /\ v # start_idx
    /\ start_idx' = v
    /\ UNCHANGED <<EngineVars, aco, running, iteration, ss_best_tour, ss_best_distance,
                   ss_avg_distance, end_idx, ants_slider, max_iterations>>
    /\ ReachRunBlock

SelectEnd(v) ==
    /\ script = "wait" /\ v # end_idx
    /\ end_idx' = v
    /\ UNCHANGED <<EngineVars, aco, running, iteration, ss_best_tour, ss_best_distance,
                   ss_avg_distance, start_idx, ants_slider, max_iterations>>
    /\ ReachRunBlock

SlideAnts(v) ==
    /\ script = "wait" /\ v # ants_slider
    /\ ants_slider' = v
    /\ UNCHANGED <<EngineVars, aco, running, iteration, ss_best_tour, ss_best_distance,
                   ss_avg_distance, start_idx, end_idx, max_iterations>>
    /\ ReachRunBlock

SlideMaxIterations(v) ==
    /\ script = "wait" /\ v # max_iterations
    /\ max_iterations' = v
    /\ UNCHANGED <<EngineVars, aco, running, iteration, ss_best_tour, ss_best_distance,
                   ss_avg_distance, start_idx, end_idx, ants_slider>>
    /\ ReachRunBlock

\* the Start button (lines 149-157)
ClickStart ==
    /\ script = "wait"
    /\ ConstructedNext(NewEngine(SessionMatrix, ants_slider, Alpha, Beta,
                                 Evaporation, DepositFactor))
    /\ aco' = "engine"
    /\ pc' = "idle" /\ outcome' = "constructed" /\ calls' = <<>>
    /\ tours_built' = <<>>
    /\ iteration' = 0
    /\ running' = TRUE
    /\ ss_best_tour' = None /\ ss_best_distance' = None
    /\ UNCHANGED <<start_city, end_city, all_tours, ret, pre, ss_avg_distance,
                   start_idx, end_idx, ants_slider, max_iterations>>
    /\ ReachRunBlock

\* the Reset button (lines 160-166); st.rerun() finds nothing running
ClickReset ==
    /\ script = "wait"
    /\ ConstructedNext(Absent) /\ pc' = "none" /\ outcome' = "none" /\ calls' = <<>>
    /\ tours_built' = <<>>
    /\ aco' = None
    /\ iteration' = 0
    /\ running' = FALSE
    /\ ss_best_tour' = None /\ ss_best_distance' = None
    /\ UNCHANGED <<start_city, end_city, all_tours, ret, pre, ss_avg_distance,
                   start_idx, end_idx, ants_slider, max_iterations, script>>

\* st.rerun() at the end of a step (line 223) runs the script again
Rerun ==
    /\ script = "wait"
    /\ running /\ iteration < max_iterations
    /\ script' = "step"
    /\ UNCHANGED <<EngineVars, aco, running, iteration, ss_best_tour, ss_best_distance,
                   ss_avg_distance, start_idx, end_idx, ants_slider, max_iterations>>

\* st.session_state.aco.run_iteration(start_idx, end_idx) (lines 209-211)
DriverCall ==
    /\ script = "step"
    /\ CallBody(start_idx, end_idx)
    /\ script' = "call"
    /\ UNCHANGED <<aco, running, iteration, ss_best_tour, ss_best_distance,
                   ss_avg_distance, start_idx, end_idx, ants_slider, max_iterations>>

\* lines 213-223
DriverAfter ==
    /\ script = "call" /\ pc = "idle" /\ outcome = "returned"
    /\ ss_best_tour' = ret[1]
    /\ ss_best_distance' = ret[2]
    /\ ss_avg_distance' = ret[3]
    /\ iteration' = iteration + 1
    /\ running' = IF iteration + 1 >= max_iterations THEN FALSE ELSE running
    /\ script' = "wait"
    /\ UNCHANGED <<EngineVars, aco, start_idx, end_idx, ants_slider, max_iterations>>

UiEvent ==
    \/ \E v \in 0 .. NumWilayas - 1 : SelectStart(v)
    \/ \E v \in 0 .. NumWilayas - 1 : SelectEnd(v)
    \/ \E v \in 1 .. MaxAnts : SlideAnts(v)
    \/ \E v \in 1 .. MaxGen : SlideMaxIterations(v)

NextDriver ==
    \/ UiEvent \/ ClickStart \/ ClickReset \/ Rerun
    \/ DriverCall \/ AntStep \/ UpdateAndReturn \/ DriverAfter

SpecDriver == InitDriver /\ [][NextDriver]_vars

----------------------------------------------------------------------------
(* Properties *)

ValidCall == start_city \in Cities /\ end_city \in Cities /\ start_city # end_city

\* tour is a permutation of the N cities from start to end, the end city at
\* no earlier position
IsTourFromTo(tour, start, end) ==
    /\ Len(tour) = num_cities
    /\ {tour[i] : i \in 1 .. Len(tour)} = Cities
    /\ \A i, j \in 1 .. Len(tour) : i # j => tour[i] # tour[j]
    /\ tour[1] = start
    /\ tour[num_cities] = end
    /\ \A i \in 1 .. Len(tour) - 1 : tour[i] # end

\* C1: every tour construct_solution returned to the current call, made with
\* valid start and end, has length N, holds every city exactly once, starts
\* at start, ends at end, and holds end at no earlier position.
C1_TourIsPermutation ==
    \A k \in DOMAIN all_tours :
        ValidCall => IsTourFromTo(all_tours[k][1], start_city, end_city)

\* C1 witness: on 4 cities, after a pheromone update, two ants of one
\* generation drew different tours
C1_Witness ==
    /\ num_cities = 4 /\ Len(history) >= 1 /\ Len(all_tours) = 2
    /\ Len(calls) = Len(history) + 1
    /\ all_tours[1][1] # all_tours[2][1]

InvalidArgs(a) == a[1] = a[2] \/ a[1] >= num_cities \/ a[2] >= num_cities

\* C2: a run_iteration call with start = end or an index >= N fails and
\* leaves pheromones, best_tour, best_distance and history as they were
\* (any error the call raises is taken for the failure the claim asks for).
C2_InvalidCallRejected ==
    (pc = "idle" /\ calls # <<>> /\ InvalidArgs(calls[Len(calls)]))
        => (outcome \in {"InvalidInput", "IndexError"} /\ Snapshot = pre)

\* one step: best_distance does not increase; best_distance and best_tour
\* change only to the length and tour of an ant strictly below best_distance
C3_BestStep ==
    /\ Leq(best_distance', best_distance)
    /\ (best_distance' # best_distance \/ best_tour' # best_tour) =>
          /\ pc = "ants"
          /\ Len(all_tours') = Len(all_tours) + 1
          /\ (best_distance = Inf \/ all_tours'[Len(all_tours')][2] < best_distance)
          /\ best_distance' = all_tours'[Len(all_tours')][2]
          /\ best_tour' = all_tours'[Len(all_tours')][1]

\* C3: across any sequence of calls best_distance never increases, and
\* best_distance and best_tour change only in the step of an ant whose tour
\* is strictly shorter than the best_distance before it, to that ant's
\* length and tour; a tour of equal length never replaces the best tour.
C3_BestMonotone == [][C3_BestStep]_vars

\* C3 witness: an ant produced a tour as long as the best one, other than
\* the best one, in a later generation, and the best tour stayed
C3_Witness ==
    /\ Len(history) >= 1 /\ Len(calls) = Len(history) + 1 /\ all_tours # <<>>
    /\ all_tours[Len(all_tours)][2] = best_distance
    /\ all_tours[Len(all_tours)][1] # best_tour

\* C4: the pheromone matrix is symmetric and has no negative entry.
C4_PheromonesSymmetric ==
    \A i, j \in Cities :
        /\ pheromones[i][j] = pheromones[j][i]
        /\ pheromones[i][j][1] >= 0 /\ pheromones[i][j][2] > 0

\* C4 witness: after two generations some edge holds more than its initial
\* pheromone and some edge less
C4_Witness ==
    /\ Len(history) = 2
    /\ \E i, j \in Cities : RLess(ROne, pheromones[i][j])
    /\ \E i, j \in Cities : i # j /\ RLess(pheromones[i][j], ROne)

\* number of calls that returned
Completed == IF pc = "idle" THEN Len(calls) ELSE Len(calls) - 1

C5_HistoryState ==
    /\ Len(history) = Completed
    /\ (pc = "idle" /\ history # <<>>) => history[Len(history)] = best_distance
    /\ \A i \in 1 .. Len(history) - 1 : Leq(history[i + 1], history[i])

C5_HistoryStep ==
    history' # history =>
        /\ pc = "ants" /\ pc' = "idle"
        /\ Len(history') = Len(history) + 1
        /\ \A i \in 1 .. Len(history) : history'[i] = history[i]
        /\ history'[Len(history')] = best_distance'

\* C5: history is empty after construction; its length is the number of
\* calls that returned; only a returning call changes it, by appending the
\* best_distance at the end of that generation; it never increases along
\* its entries.
C5_HistoryAppendOnly ==
    /\ history = <<>>
    /\ [](C5_HistoryState)
    /\ [][C5_HistoryStep]_vars

\* C5 witness: two generations, the second with a shorter best distance
C5_Witness == Len(history) = 2 /\ history[2] < history[1]

\* C7: no engine exists whose distance matrix has N < 3 or is not square,
\* whose ant count is not positive, or whose evaporation rate is outside
\* (0, 1): construction with such arguments fails.
C7_InvalidCtorRejected ==
    pc = "idle" =>
        /\ num_cities >= 3
        /\ \A i \in DOMAIN distance_matrix :
              Cardinality(DOMAIN distance_matrix[i]) = num_cities
        /\ num_ants >= 1
        /\ RLess(RZero, evaporation_rate) /\ RLess(evaporation_rate, ROne)

\* C8: all run_iteration calls made on one engine instance of the driver,
\* from its Start on, pass the same (start, end) pair.
C8_FixedPair == \A i, j \in DOMAIN calls : calls[i] = calls[j]

\* occurrences of the undirected edge {i, j} among the steps of tour
EdgeCount(tour, i, j) ==
    Cardinality({p \in 1 .. Len(tour) - 1 :
                    \/ tour[p] = i /\ tour[p + 1] = j
                    \/ tour[p] = j /\ tour[p + 1] = i})

\* the sum over the entries <<tour, distance>> of tours of Q / distance for
\* every occurrence of the edge {i, j}
RECURSIVE TotalDeposit(_, _, _, _)
TotalDeposit(tours, k, i, j) ==
    IF k > Len(tours) THEN RZero
    ELSE RAdd(RMul(Rat(Q, tours[k][2]), <<EdgeCount(tours[k][1], i, j), 1>>),
              TotalDeposit(tours, k + 1, i, j))

C9_State ==
    pc = "ants" =>
        /\ pheromones = pre.pheromones
        /\ Len(all_tours) <= num_ants

C9_Step ==
    /\ (pc = "idle" /\ pc' = "ants") =>
          all_tours' = <<>> /\ pheromones' = pheromones
    /\ (pc = "ants" /\ pc' = "ants") =>
          /\ pheromones' = pheromones
          /\ Len(tours_built') = Len(tours_built) + 1
          /\ all_tours' = Append(all_tours, tours_built'[Len(tours_built')])
    /\ (pc = "ants" /\ pc' = "idle") =>
          /\ Len(all_tours) = num_ants
          /\ all_tours' = all_tours
          /\ \A k \in 1 .. num_ants :
                all_tours[k] = tours_built[Len(tours_built) - num_ants + k]
          /\ \A i, j \in Cities :
                pheromones'[i][j] =
                    RAdd(RMul(pheromones[i][j],
                              RAdd(ROne, <<-evaporation_rate[1], evaporation_rate[2]>>)),
                         TotalDeposit(all_tours, 1, i, j))
    /\ pheromones' # pheromones => (pc = "ants" /\ pc' = "idle")

\* C9: a call builds num_ants tours, one per step, against the pheromone
\* matrix as it stood at entry; the matrix changes only in the returning
\* step, once, to (1 - rho) * old + the deposits Q / distance of exactly the
\* num_ants tours of this call along their edges, both directions.
C9_OneGeneration == [](C9_State) /\ [][C9_Step]_vars

\* C9 witness: the second generation of a two-ant colony returned, its two
\* ants having drawn different tours
C9_Witness ==
    /\ pc = "idle" /\ Len(history) = 2 /\ num_ants = 2
    /\ all_tours[1][1] # all_tours[2][1]

\* C10: best_tour is None exactly when best_distance is +infinity, which is
\* when no ant has produced a tour; otherwise best_distance is the length of
\* best_tour, the least length over all tours built on this engine, and
\* best_tour is the first tour built with that length.
C10_BestConsistent ==
    /\ (best_tour = NoTour) <=> (best_distance = Inf)
    /\ (best_tour = NoTour) <=> (tours_built = <<>>)
    /\ best_tour # NoTour =>
          /\ best_distance = calculate_distance(best_tour)
          /\ \A k \in DOMAIN tours_built : best_distance <= tours_built[k][2]
          /\ \E k \in DOMAIN tours_built :
                /\ tours_built[k] = <<best_tour, best_distance>>
                /\ \A j \in 1 .. k - 1 : tours_built[j][2] > best_distance

\* C10 witness: the best tour is not the first tour built, and a later tour
\* of the same length did not replace it
C10_Witness ==
    /\ best_tour # NoTour
    /\ tours_built[1][2] > best_distance
    /\ \E k \in DOMAIN tours_built :
          tours_built[k][2] = best_distance /\ tours_built[k][1] # best_tour

====
